---- MODULE Spec2Model ----
(***************************************************************************)
(* A model of the QOI codec of kriticalflare/qoi: Encode (src/encode.go)   *)
(* and Decode / readHeader (src/decode.go).  Each iteration of the pixel   *)
(* loop of Encode and of the chunk loop of Decode is one action; bytes are *)
(* numbers in 0..255 and every uint8 expression is reduced modulo 256.     *)
(***************************************************************************)
EXTENDS Integers, Sequences, FiniteSets, TLC

(***************************************************************************)
(* Bounds of the model.                                                    *)
(***************************************************************************)
\* longest image (in pixels) whose pixels are drawn freely from Palette
MaxPixels == 4
\* longest image made of one repeated pixel
MaxRun == 130
\* longest chunk stream (in bytes) handed to Decode byte by byte
MaxStream == 5

(***************************************************************************)
(* uint8 / uint32 arithmetic of Go.                                        *)
(***************************************************************************)
U8(x) == x % 256

Bit(x, i) == (x \div (2 ^ i)) % 2

RECURSIVE OrBits(_, _, _)
OrBits(a, b, i) ==
    IF i > 7 THEN 0
    ELSE (IF Bit(a, i) = 1 \/ Bit(b, i) = 1 THEN 2 ^ i ELSE 0) + OrBits(a, b, i + 1)

RECURSIVE AndBits(_, _, _)
AndBits(a, b, i) ==
    IF i > 7 THEN 0
    ELSE (IF Bit(a, i) = 1 /\ Bit(b, i) = 1 THEN 2 ^ i ELSE 0) + AndBits(a, b, i + 1)

\* a | b, a & b, a << n, a >> n on uint8
Or(a, b) == OrBits(a, b, 0)
And(a, b) == AndBits(a, b, 0)
Shl(a, n) == U8(a * (2 ^ n))
Shr(a, n) == a \div (2 ^ n)

\* uint32 product a * b (Go wraps modulo 2^32), computed on 16-bit limbs:
\* the limb product ah*bh only contributes multiples of 2^32 and is dropped,
\* the cross term is reduced modulo 2^16 before it is shifted.  The model's
\* integers are 32-bit signed, so this is used where the wrapped product is
\* below 2^31 (every width and height of WideDims and 0..MaxRun + 1).
Mul32(a, b) ==
    LET al == a % 65536
        ah == a \div 65536
        bl == b % 65536
        bh == b \div 65536
        cross == (ah * bl + al * bh) % 65536
    IN  al * bl + cross * 65536

\* the four bytes of v with the least significant byte first
AppendUint32LittleEndian(v) ==
    << v % 256, (v \div 256) % 256, (v \div 65536) % 256, (v \div 16777216) % 256 >>

\* binary.BigEndian.AppendUint32 / binary.BigEndian.Uint32
AppendUint32(v) ==
    << (v \div 16777216) % 256, (v \div 65536) % 256, (v \div 256) % 256, v % 256 >>

Uint32(b) == b[1] * 16777216 + b[2] * 65536 + b[3] * 256 + b[4]

(***************************************************************************)
(* Data model (src/decode.go).                                             *)
(***************************************************************************)
\* "qoif"
MAGIC_BYTES == << 113, 111, 105, 102 >>

UNKNOWN == 0
qoi_op_rgb == 1
qoi_op_rgba == 2
qoi_op_index == 3
qoi_op_diff == 4
qoi_op_luma == 5
qoi_op_run == 6

Pix(r, g, b, a) == [R |-> r, G |-> g, B |-> b, A |-> a]

\* the zero value of Go's pixel struct
ZeroPixel == Pix(0, 0, 0, 0)

Hash(p) == U8(U8(p.R * 3) + U8(p.G * 5) + U8(p.B * 7) + U8(p.A * 11)) % 64

Equals(p, other) ==
    (p.R = other.R) /\ (p.G = other.G) /\ (p.B = other.B) /\ (p.A = other.A)

NewState ==
    [ Raw |-> << >>,
      historyBuffer |-> [i \in 0 .. 63 |-> ZeroPixel],
      previousPixel |-> Pix(0, 0, 0, 255),
      previousType |-> UNKNOWN,
      header |-> [Width |-> 0, Height |-> 0, Channels |-> 0, Colorspace |-> 0] ]

\* readHeader comparing only the first three bytes with the magic
readHeaderThreeBytes(file) ==
    IF Len(file) < 14 THEN [err |-> "short"]
    ELSE IF SubSeq(file, 1, 3) # SubSeq(MAGIC_BYTES, 1, 3) THEN [err |-> "magic"]
    ELSE [ err |-> "nil",
           Width |-> Uint32(SubSeq(file, 5, 8)),
           Height |-> Uint32(SubSeq(file, 9, 12)),
           Channels |-> file[13],
           Colorspace |-> file[14] ]

\* readHeader: "short" and "magic" are its two errors
readHeader(file) ==
    IF Len(file) < 14 THEN [err |-> "short"]
    ELSE IF SubSeq(file, 1, 4) # MAGIC_BYTES THEN [err |-> "magic"]
    ELSE [ err |-> "nil",
           Width |-> Uint32(SubSeq(file, 5, 8)),
           Height |-> Uint32(SubSeq(file, 9, 12)),
           Channels |-> file[13],
           Colorspace |-> file[14] ]

(***************************************************************************)
(* State.  The inputs of Encode, its locals, and the locals of Decode      *)
(* (prefixed d where Encode uses the same name).                           *)
(***************************************************************************)
VARIABLES
    pc,             \* where the run is: Encode, EncLoop, EncDone, Decode, DecLoop, DecDone,
                    \* DecodeConfig, ConfigDone
    rgba,           \* Encode's input bytes
    height, width, channels, colorspace,
    buffer,         \* Encode's output bytes
    s,              \* Encode's State
    idx,            \* Encode's byte index into rgba
    pixelsWritten,
    encErr,         \* Encode returned a non-nil error
    sAfter,         \* history: Snapshot of Encode's State after each chunk
    dBuffer,        \* Decode's input bytes
    dS,             \* Decode's State
    dIdx,           \* Decode's byte index into dBuffer
    pixelsRead,
    decResult,      \* how Decode ended: none, ok, error, panic
    chunksRead,     \* history: the number of chunks Decode has processed
    dFirst,         \* what an earlier call of Decode returned, if any
    probe           \* what DecodeConfig read and returned, if called

vars == << pc, rgba, height, width, channels, colorspace, buffer, s, idx,
           pixelsWritten, encErr, sAfter, dBuffer, dS, dIdx, pixelsRead, decResult,
           chunksRead, dFirst, probe >>

encVars == << buffer, s, idx, pixelsWritten, encErr, sAfter >>
decVars == << dBuffer, dS, dIdx, pixelsRead, decResult, chunksRead >>
inVars == << rgba, height, width, channels, colorspace >>
callVars == << dFirst, probe >>

\* what a State holds after a chunk, the cache in short: the slots that do
\* not hold the zero pixel, with the pixel each holds
Snapshot(state) ==
    [ previousType |-> state.previousType,
      previousPixel |-> state.previousPixel,
      slots |-> [i \in { j \in 0 .. 63 : state.historyBuffer[j] # ZeroPixel } |->
                    state.historyBuffer[i]] ]

(***************************************************************************)
(* Encode (src/encode.go).                                                 *)
(***************************************************************************)
expectedPixelsCount == Mul32(height, width)

\* the pixel whose four bytes start at byte index i (0-based) of rgba
PixelAt(i) == Pix(rgba[i + 1], rgba[i + 2], rgba[i + 3], rgba[i + 4])

currPixel == PixelAt(idx)

EncLoopCond == pixelsWritten < expectedPixelsCount /\ idx < Len(rgba)

\* a run scan that counts up to 63, all that 6 bits hold
RECURSIVE RunScanTo63(_, _)
RunScanTo63(rIdx, count) ==
    IF pixelsWritten < expectedPixelsCount /\ rIdx < Len(rgba) /\ count < 63
    THEN IF Equals(currPixel, PixelAt(rIdx))
         THEN RunScanTo63(rIdx + 4, count + 1)
         ELSE [rIdx |-> rIdx, count |-> count]
    ELSE [rIdx |-> rIdx, count |-> count]

\* a run scan that stops at once: the run is currPixel alone
RunScanNone(rIdx, count) == [rIdx |-> rIdx, count |-> count]

\* the run scan: counts the pixels after currPixel that equal it, up to 61
RECURSIVE RunScan(_, _)
RunScan(rIdx, count) ==
    IF pixelsWritten < expectedPixelsCount /\ rIdx < Len(rgba) /\ count < 61
    THEN IF Equals(currPixel, PixelAt(rIdx))
         THEN RunScan(rIdx + 4, count + 1)
         ELSE [rIdx |-> rIdx, count |-> count]
    ELSE [rIdx |-> rIdx, count |-> count]

\* what every branch does to the State: previousType, previousPixel, cache
Emitted(type) ==
    [s EXCEPT !.previousType = type,
              !.previousPixel = currPixel,
              !.historyBuffer[Hash(currPixel)] = currPixel]

CacheHit == Equals(s.historyBuffer[Hash(currPixel)], currPixel)

\* the test of line 46 without the comparison of the hashes
AfterAnyIndex == s.previousType = qoi_op_index

\* the test of line 46 with the comparison of the hashes inverted
AfterOtherIndex ==
    s.previousType = qoi_op_index /\ Hash(s.previousPixel) # Hash(currPixel)

AfterSameIndex ==
    s.previousType = qoi_op_index /\ Hash(s.previousPixel) = Hash(currPixel)

\* the test of line 114 without the channel count
AlphaSame == currPixel.A = s.previousPixel.A

AlphaOk == channels = 3 \/ currPixel.A = s.previousPixel.A

rDiff == U8(currPixel.R - s.previousPixel.R + 2)
gDiff == U8(currPixel.G - s.previousPixel.G + 2)
bDiff == U8(currPixel.B - s.previousPixel.B + 2)

IsDiff == rDiff < 4 /\ gDiff < 4 /\ bDiff < 4

dg == U8(currPixel.G - s.previousPixel.G + 32)
dr_dg ==
    U8((currPixel.R - s.previousPixel.R) - (currPixel.G - s.previousPixel.G) + 8)
db_dg ==
    U8((currPixel.B - s.previousPixel.B) - (currPixel.G - s.previousPixel.G) + 8)

IsLuma == dg <= 63 /\ dr_dg <= 15 /\ db_dg <= 15

\* lines 14-34: the length check, the header, the fresh State
EncodeEntry ==
    /\ pc = "Encode"
    /\ IF Len(rgba) # expectedPixelsCount * 4
       THEN /\ pc' = "EncDone"
            /\ encErr' = TRUE
            /\ buffer' = << >>
            /\ UNCHANGED << s, idx, pixelsWritten, sAfter >>
       ELSE /\ pc' = "EncLoop"
            /\ encErr' = FALSE
            /\ buffer' = MAGIC_BYTES \o AppendUint32(width) \o AppendUint32(height)
                            \o << channels, colorspace >>
            /\ s' = NewState
            /\ idx' = 0
            /\ pixelsWritten' = 0
            /\ sAfter' = << >>
    /\ UNCHANGED << inVars, decVars, callVars >>

\* lines 44-73: cache hit right after an INDEX chunk of the same slot: a RUN
EncRunAfterIndex ==
    /\ pc = "EncLoop" /\ EncLoopCond
    /\ CacheHit /\ AfterSameIndex
    /\ LET r == RunScan(idx + 4, 0)
       IN  /\ idx' = r.rIdx
           /\ s' = Emitted(qoi_op_run)
           /\ buffer' = Append(buffer, Or(r.count, 192))
           /\ pixelsWritten' = pixelsWritten + r.count + 1
    /\ sAfter' = Append(sAfter, Snapshot(s'))
    /\ UNCHANGED << pc, encErr, inVars, decVars, callVars >>

\* lines 44-46, 74-84: cache hit: an INDEX chunk
EncIndex ==
    /\ pc = "EncLoop" /\ EncLoopCond
    /\ CacheHit /\ ~AfterSameIndex
    /\ idx' = idx + 4
    /\ s' = Emitted(qoi_op_index)
    /\ buffer' = Append(buffer, Hash(currPixel))
    /\ pixelsWritten' = pixelsWritten + 1
    /\ sAfter' = Append(sAfter, Snapshot(s'))
    /\ UNCHANGED << pc, encErr, inVars, decVars, callVars >>

\* lines 87-111: no cache hit and the pixel repeats previousPixel: a RUN
EncRun ==
    /\ pc = "EncLoop" /\ EncLoopCond
    /\ ~CacheHit
    /\ Equals(currPixel, s.previousPixel)
    /\ LET r == RunScan(idx + 4, 0)
       IN  /\ idx' = r.rIdx
           /\ s' = Emitted(qoi_op_run)
           /\ buffer' = Append(buffer, Or(r.count, 192))
           /\ pixelsWritten' = pixelsWritten + r.count + 1
    /\ sAfter' = Append(sAfter, Snapshot(s'))
    /\ UNCHANGED << pc, encErr, inVars, decVars, callVars >>

\* lines 114-130: a DIFF chunk
EncDiff ==
    /\ pc = "EncLoop" /\ EncLoopCond
    /\ ~CacheHit
    /\ ~Equals(currPixel, s.previousPixel)
    /\ AlphaOk /\ IsDiff
    /\ idx' = idx + 4
    /\ s' = Emitted(qoi_op_diff)
    /\ buffer' = Append(buffer, Or(Or(Or(64, Shl(rDiff, 4)), Shl(gDiff, 2)), bDiff))
    /\ pixelsWritten' = pixelsWritten + 1
    /\ sAfter' = Append(sAfter, Snapshot(s'))
    /\ UNCHANGED << pc, encErr, inVars, decVars, callVars >>

\* lines 132-152: a LUMA chunk
EncLuma ==
    /\ pc = "EncLoop" /\ EncLoopCond
    /\ ~CacheHit
    /\ ~Equals(currPixel, s.previousPixel)
    /\ AlphaOk /\ ~IsDiff /\ IsLuma
    /\ idx' = idx + 4
    /\ s' = Emitted(qoi_op_luma)
    /\ buffer' = buffer \o << Or(128, dg), Or(Shl(dr_dg, 4), db_dg) >>
    /\ pixelsWritten' = pixelsWritten + 1
    /\ sAfter' = Append(sAfter, Snapshot(s'))
    /\ UNCHANGED << pc, encErr, inVars, decVars, callVars >>

\* lines 154-165: an RGB chunk
EncRGB ==
    /\ pc = "EncLoop" /\ EncLoopCond
    /\ ~CacheHit
    /\ ~Equals(currPixel, s.previousPixel)
    /\ AlphaOk /\ ~IsDiff /\ ~IsLuma
    /\ idx' = idx + 4
    /\ s' = Emitted(qoi_op_rgb)
    /\ buffer' = buffer \o << 254, currPixel.R, currPixel.G, currPixel.B >>
    /\ pixelsWritten' = pixelsWritten + 1
    /\ sAfter' = Append(sAfter, Snapshot(s'))
    /\ UNCHANGED << pc, encErr, inVars, decVars, callVars >>

\* lines 167-181: an RGBA chunk
EncRGBA ==
    /\ pc = "EncLoop" /\ EncLoopCond
    /\ ~CacheHit
    /\ ~Equals(currPixel, s.previousPixel)
    /\ ~AlphaOk
    /\ idx' = idx + 4
    /\ s' = Emitted(qoi_op_rgba)
    /\ buffer' = buffer \o << 255, currPixel.R, currPixel.G, currPixel.B, currPixel.A >>
    /\ pixelsWritten' = pixelsWritten + 1
    /\ sAfter' = Append(sAfter, Snapshot(s'))
    /\ UNCHANGED << pc, encErr, inVars, decVars, callVars >>

\* lines 36, 185: the loop ends and buffer is returned as it is
EncodeReturn ==
    /\ pc = "EncLoop" /\ ~EncLoopCond
    /\ pc' = "EncDone"
    /\ UNCHANGED << encVars, inVars, decVars, callVars >>

(***************************************************************************)
(* Decode (src/decode.go).                                                 *)
(***************************************************************************)
dExpectedPixelsCount == Mul32(dS.header.Width, dS.header.Height)

\* a loop that runs on while bytes are left, whatever the pixel count
DecLoopCondBytesOnly == dIdx < Len(dBuffer)

DecLoopCond == dIdx < Len(dBuffer) /\ pixelsRead < dExpectedPixelsCount

\* buffer[idx + k]
ByteAt(k) == dBuffer[dIdx + k + 1]

tag == ByteAt(0)

\* buffer[idx + k] is an index out of range
OutOfRange(k) == dIdx + k >= Len(dBuffer)

\* a chunk that writes Raw and previousPixel and leaves the cache alone
DecodedNotCached(pixel) ==
    [dS EXCEPT !.Raw[pixelsRead + 1] = pixel,
               !.previousPixel = pixel]

\* s.historyBuffer[pixel.Hash()] = pixel; s.Raw[pixelsRead] = pixel;
\* s.previousPixel = pixel
Decoded(pixel) ==
    [dS EXCEPT !.historyBuffer[Hash(pixel)] = pixel,
               !.Raw[pixelsRead + 1] = pixel,
               !.previousPixel = pixel]

\* the QOI_OP_INDEX case leaves the cache alone
DecodedIndex(pix) ==
    [dS EXCEPT !.Raw[pixelsRead + 1] = pix,
               !.previousPixel = pix]

DiffPixel(prev, t) ==
    Pix(U8(prev.R + Shr(And(t, 48), 4) - 2),
        U8(prev.G + Shr(And(t, 12), 2) - 2),
        U8(prev.B + Shr(And(t, 3), 0) - 2),
        prev.A)

LumaPixel(prev, t, rbByte) ==
    LET g == U8(And(t, 63) - 32 + prev.G)
    IN  Pix(U8(Shr(And(rbByte, 240), 4) - 8 + prev.R + g - prev.G),
            g,
            U8(And(rbByte, 15) - 8 + prev.B + g - prev.G),
            prev.A)

\* the run length read without its bias of 1
runLengthNoBias == Shr(Shl(tag, 2), 2)

runLength == Shr(Shl(tag, 2), 2) + 1

\* a first RUN chunk that leaves the cache alone
RunNotSeeded == dS

\* line 187-189: a RUN chunk that comes first stores previousPixel
RunSeeded ==
    IF pixelsRead = 0
    THEN [dS EXCEPT !.historyBuffer[Hash(dS.previousPixel)] = dS.previousPixel]
    ELSE dS

\* lines 190-193: the copies of previousPixel written before the loop ends or
\* an index leaves Raw
RunWritten ==
    [RunSeeded EXCEPT !.Raw =
        [i \in 1 .. Len(dS.Raw) |->
            IF pixelsRead < i /\ i <= pixelsRead + runLength
            THEN dS.previousPixel
            ELSE dS.Raw[i]]]

\* a Go run-time panic ends Decode without a return value
Panic(state) ==
    /\ pc' = "DecDone"
    /\ decResult' = "panic"
    /\ dS' = state
    /\ UNCHANGED << dBuffer, dIdx, pixelsRead, chunksRead >>

\* lines 84-97: the header, the fresh State, the Raw array
DecodeEntry ==
    /\ pc = "Decode"
    /\ LET h == readHeader(dBuffer)
       IN  IF h.err # "nil"
           THEN /\ pc' = "DecDone"
                /\ decResult' = "error"
                /\ UNCHANGED << dS, dIdx, pixelsRead, chunksRead >>
           ELSE /\ pc' = "DecLoop"
                /\ decResult' = "none"
                /\ dS' = [NewState EXCEPT
                            !.header = [Width |-> h.Width, Height |-> h.Height,
                                        Channels |-> h.Channels,
                                        Colorspace |-> h.Colorspace],
                            !.Raw = [i \in 1 .. Mul32(h.Width, h.Height) |-> ZeroPixel]]
                /\ dIdx' = 14
                /\ pixelsRead' = 0
                /\ chunksRead' = 0
    /\ UNCHANGED << dBuffer, inVars, encVars, callVars >>

\* lines 103-110
DecRGBA ==
    /\ pc = "DecLoop" /\ DecLoopCond
    /\ tag = 255
    /\ IF OutOfRange(4)
       THEN Panic(dS)
       ELSE /\ dS' = Decoded(Pix(ByteAt(1), ByteAt(2), ByteAt(3), ByteAt(4)))
            /\ dIdx' = dIdx + 5
            /\ pixelsRead' = pixelsRead + 1
            /\ chunksRead' = chunksRead + 1
            /\ UNCHANGED << pc, decResult, dBuffer >>
    /\ UNCHANGED << inVars, encVars, callVars >>

\* lines 112-119
DecRGB ==
    /\ pc = "DecLoop" /\ DecLoopCond
    /\ tag = 254
    /\ IF OutOfRange(3)
       THEN Panic(dS)
       ELSE /\ dS' = Decoded(Pix(ByteAt(1), ByteAt(2), ByteAt(3), dS.previousPixel.A))
            /\ dIdx' = dIdx + 4
            /\ pixelsRead' = pixelsRead + 1
            /\ chunksRead' = chunksRead + 1
            /\ UNCHANGED << pc, decResult, dBuffer >>
    /\ UNCHANGED << inVars, encVars, callVars >>

\* lines 121-132 (the case of line 121 is never taken: the loop condition
\* has pixelsRead < expectedPixelsCount)
DecIndex ==
    /\ pc = "DecLoop" /\ DecLoopCond
    /\ tag < 254 /\ dExpectedPixelsCount # pixelsRead
    /\ Shr(tag, 6) = 0
    /\ dS' = DecodedIndex(dS.historyBuffer[tag])
    /\ dIdx' = dIdx + 1
    /\ pixelsRead' = pixelsRead + 1
    /\ chunksRead' = chunksRead + 1
    /\ UNCHANGED << pc, decResult, dBuffer, inVars, encVars, callVars >>

\* lines 134-154
DecDiff ==
    /\ pc = "DecLoop" /\ DecLoopCond
    /\ tag < 254 /\ dExpectedPixelsCount # pixelsRead
    /\ Shr(tag, 6) = 1
    /\ dS' = Decoded(DiffPixel(dS.previousPixel, tag))
    /\ dIdx' = dIdx + 1
    /\ pixelsRead' = pixelsRead + 1
    /\ chunksRead' = chunksRead + 1
    /\ UNCHANGED << pc, decResult, dBuffer, inVars, encVars, callVars >>

\* lines 156-183
DecLuma ==
    /\ pc = "DecLoop" /\ DecLoopCond
    /\ tag < 254 /\ dExpectedPixelsCount # pixelsRead
    /\ Shr(tag, 6) = 2
    /\ IF OutOfRange(1)
       THEN Panic(dS)
       ELSE /\ dS' = Decoded(LumaPixel(dS.previousPixel, tag, ByteAt(1)))
            /\ dIdx' = dIdx + 2
            /\ pixelsRead' = pixelsRead + 1
            /\ chunksRead' = chunksRead + 1
            /\ UNCHANGED << pc, decResult, dBuffer >>
    /\ UNCHANGED << inVars, encVars, callVars >>

\* lines 184-196
DecRun ==
    /\ pc = "DecLoop" /\ DecLoopCond
    /\ tag < 254 /\ dExpectedPixelsCount # pixelsRead
    /\ Shr(tag, 6) = 3
    /\ IF pixelsRead + runLength > Len(dS.Raw)
       THEN Panic(RunWritten)
       ELSE /\ dS' = RunWritten
            /\ dIdx' = dIdx + 1
            /\ pixelsRead' = pixelsRead + runLength
            /\ chunksRead' = chunksRead + 1
            /\ UNCHANGED << pc, decResult, dBuffer >>
    /\ UNCHANGED << inVars, encVars, callVars >>

\* lines 100, 199-203
DecodeReturn ==
    /\ pc = "DecLoop" /\ ~DecLoopCond
    /\ pc' = "DecDone"
    /\ decResult' = IF pixelsRead # dExpectedPixelsCount THEN "error" ELSE "ok"
    /\ UNCHANGED << dBuffer, dS, dIdx, pixelsRead, chunksRead, inVars, encVars, callVars >>

\* line 230, r.Read(buffer) with a buffer of 14 bytes on a reader that holds
\* data: what the io.Reader contract allows.  Read delivers n of the bytes
\* that are left, at least one when its error is nil; it may report the end
\* of the data (EOF) together with the last bytes; it may fail (EIO) after
\* any number of bytes.
ReadResults(data) ==
    { rd \in [n : 0 .. 14, err : { "nil", "EOF", "EIO" }] :
        /\ rd.n <= Len(data)
        /\ rd.err = "nil" => rd.n > 0
        /\ rd.err = "EOF" => rd.n = Len(data) }

\* lines 228-245; dBuffer is the data the reader r holds
DecodeConfig ==
    /\ pc = "DecodeConfig"
    /\ \E rd \in ReadResults(dBuffer) :
          LET file == [i \in 1 .. 14 |-> IF i <= rd.n THEN dBuffer[i] ELSE 0]
              h == readHeader(file)
          IN  probe' = << IF rd.err # "nil" \/ rd.n # 14
                          THEN [n |-> rd.n, err |-> rd.err, Width |-> 0, Height |-> 0]
                          ELSE IF h.err # "nil"
                          THEN [n |-> rd.n, err |-> h.err, Width |-> 0, Height |-> 0]
                          ELSE [n |-> rd.n, err |-> "nil",
                                Width |-> h.Width, Height |-> h.Height] >>
    /\ pc' = "ConfigDone"
    /\ UNCHANGED << dFirst, inVars, encVars, decVars >>

\* the round trip: Decode is called on the bytes Encode returned
DecodeEncoded ==
    /\ pc = "EncDone" /\ ~encErr
    /\ pc' = "Decode"
    /\ dBuffer' = buffer
    /\ UNCHANGED << dS, dIdx, pixelsRead, decResult, chunksRead, inVars, encVars, callVars >>

(***************************************************************************)
(* The reference encoding of an image: the stream the fixtures             *)
(* testimages/*.qoi hold, which the tests compare Encode's output with and *)
(* hand to Decode.  RUN comes first, then INDEX, DIFF, LUMA, RGB, RGBA;    *)
(* the end marker closes the stream.  With runStores a RUN chunk stores    *)
(* its pixel in the cache, without it a RUN chunk leaves the cache alone.  *)
(***************************************************************************)
EndMarker == << 0, 0, 0, 0, 0, 0, 0, 1 >>

\* a difference of two bytes as a signed 8-bit number
S8(x) == ((x + 128) % 256) - 128

RefChunk(px, prev, index) ==
    LET vr == S8(px.R - prev.R)
        vg == S8(px.G - prev.G)
        vb == S8(px.B - prev.B)
        vg_r == vr - vg
        vg_b == vb - vg
    IN  IF index[Hash(px)] = px THEN << Hash(px) >>
        ELSE IF px.A # prev.A THEN << 255, px.R, px.G, px.B, px.A >>
        ELSE IF vr > -3 /\ vr < 2 /\ vg > -3 /\ vg < 2 /\ vb > -3 /\ vb < 2
             THEN << 64 + (vr + 2) * 16 + (vg + 2) * 4 + (vb + 2) >>
        ELSE IF vg_r > -9 /\ vg_r < 8 /\ vg > -33 /\ vg < 32 /\ vg_b > -9 /\ vg_b < 8
             THEN << 128 + (vg + 32), (vg_r + 8) * 16 + (vg_b + 8) >>
        ELSE << 254, px.R, px.G, px.B >>

RECURSIVE RefLoop(_, _, _, _, _, _)
RefLoop(ps, i, prev, index, run, runStores) ==
    IF i > Len(ps) THEN << >>
    ELSE LET px == ps[i]
             \* the cache once a pending run has been written out
             flushed == IF run > 0 /\ runStores
                        THEN [index EXCEPT ![Hash(prev)] = prev]
                        ELSE index
         IN  IF px = prev
             THEN IF run + 1 = 62 \/ i = Len(ps)
                  THEN << 192 + run >>
                       \o RefLoop(ps, i + 1, px,
                                  IF runStores THEN [index EXCEPT ![Hash(px)] = px]
                                  ELSE index,
                                  0, runStores)
                  ELSE RefLoop(ps, i + 1, px, index, run + 1, runStores)
             ELSE (IF run > 0 THEN << 192 + (run - 1) >> ELSE << >>)
                  \o RefChunk(px, prev, flushed)
                  \o RefLoop(ps, i + 1, px, [flushed EXCEPT ![Hash(px)] = px],
                             0, runStores)

RefEncode(ps, w, h, ch, cs, runStores) ==
    MAGIC_BYTES \o AppendUint32(w) \o AppendUint32(h) \o << ch, cs >>
    \o RefLoop(ps, 1, Pix(0, 0, 0, 255), [i \in 0 .. 63 |-> ZeroPixel], 0, runStores)
    \o EndMarker

(***************************************************************************)
(* Inputs.                                                                 *)
(***************************************************************************)
\* the initial previousPixel (slot 53); the zero pixel (slot 0); a pixel one
\* below it on every channel modulo 256; a pixel far from it (slot 9); a
\* pixel of slot 9 too; the fourth pixel with another alpha
Palette ==
    { Pix(0, 0, 0, 255), Pix(0, 0, 0, 0), Pix(255, 255, 255, 255),
      Pix(10, 20, 30, 255), Pix(0, 4, 0, 255), Pix(10, 20, 30, 7) }

\* the bytes of a sequence of pixels: R, G, B, A of each in turn
Flatten(ps) ==
    [i \in 1 .. 4 * Len(ps) |->
        LET p == ps[(i + 3) \div 4]
        IN  CASE i % 4 = 1 -> p.R
              [] i % 4 = 2 -> p.G
              [] i % 4 = 3 -> p.B
              [] OTHER -> p.A]

\* the pixels of an rgba buffer whose length is a multiple of 4
Pixels(bytes) == [i \in 1 .. (Len(bytes) \div 4) |->
                    Pix(bytes[4 * i - 3], bytes[4 * i - 2], bytes[4 * i - 1], bytes[4 * i])]

\* widths and heights of the size check: small ones and 2^16, whose square
\* is 2^32
WideDims == { 0, 1, 2, 65536 }

\* tags and payload bytes of hand-made streams: INDEX 0, DIFF of (0,0,0),
\* LUMA with dg = 3, RUN of 2, the RGB tag, the RGBA tag
StreamBytes == { 0, 106, 163, 193, 254, 255 }

\* pixels of RGBA chunks of hand-made streams: those of Palette and a pixel
\* of slot 0 that is not the zero pixel
LiteralPixels == Palette \union { Pix(0, 0, 0, 64) }

\* slots named by the INDEX chunks of hand-made streams: the slots of
\* LiteralPixels and slot 1, which no pixel of LiteralPixels has
IndexSlots == { Hash(p) : p \in LiteralPixels } \union { 1 }

BadMagics == { << 113, 111, 105, 103 >>, << 81, 111, 105, 102 >>, << 0, 0, 0, 0 >> }

Header(magic, w, h, ch, cs) ==
    magic \o AppendUint32(w) \o AppendUint32(h) \o << ch, cs >>

EncodeIdle ==
    /\ buffer = << >>
    /\ s = NewState
    /\ idx = 0
    /\ pixelsWritten = 0
    /\ encErr = FALSE
    /\ sAfter = << >>

\* no earlier call of Decode, no call of DecodeConfig
CallsIdle ==
    /\ dFirst = << >>
    /\ probe = << >>

DecodeIdle ==
    /\ dBuffer = << >>
    /\ dS = NewState
    /\ dIdx = 0
    /\ pixelsRead = 0
    /\ decResult = "none"
    /\ chunksRead = 0
    /\ CallsIdle

\* images of up to MaxPixels pixels drawn freely from Palette
FreeImage ==
    \E n \in 0 .. MaxPixels :
        \E ps \in [1 .. n -> Palette] :
            /\ rgba = Flatten(ps)
            /\ width \in 0 .. MaxPixels
            /\ height \in 0 .. MaxPixels
            /\ width * height = n

\* images of one row made of one repeated pixel
RunImage ==
    \E n \in 1 .. MaxRun :
        \E p \in Palette :
            /\ rgba = Flatten([i \in 1 .. n |-> p])
            /\ width = n
            /\ height = 1

\* buffers of any length up to 4 * MaxPixels + 1 bytes with any width and
\* height of WideDims
AnySizeImage ==
    \E m \in 0 .. 4 * MaxPixels + 1 :
        /\ rgba = SubSeq(Flatten([i \in 1 .. MaxPixels + 1 |-> Pix(10, 20, 30, 255)]), 1, m)
        /\ width \in WideDims
        /\ height \in WideDims

\* the colorspace byte, which is written to the header and read back and
\* which nothing else depends on: 0, and 1 too for images of up to 2 pixels
Colorspaces == IF Len(rgba) <= 8 THEN { 0, 1 } ELSE { 0 }

Init ==
    /\ pc = "Encode"
    /\ channels \in { 3, 4 }
    /\ FreeImage \/ RunImage \/ AnySizeImage
    /\ colorspace \in Colorspaces
    /\ EncodeIdle
    /\ DecodeIdle

EncodeStep ==
    \/ EncodeEntry
    \/ EncRunAfterIndex
    \/ EncIndex
    \/ EncRun
    \/ EncDiff
    \/ EncLuma
    \/ EncRGB
    \/ EncRGBA
    \/ EncodeReturn

DecodeStep ==
    \/ DecodeEntry
    \/ DecRGBA
    \/ DecRGB
    \/ DecIndex
    \/ DecDiff
    \/ DecLuma
    \/ DecRun
    \/ DecodeReturn

Next == EncodeStep \/ DecodeEncoded \/ DecodeStep

\* Encode, then Decode on its output
Spec == Init /\ [][Next]_vars

\* Decode on the reference encoding of an image
InitRef ==
    /\ pc = "Decode"
    /\ channels \in { 3, 4 }
    /\ FreeImage \/ RunImage
    /\ colorspace \in Colorspaces
    /\ channels = 3 => \A i \in 1 .. Len(rgba) : i % 4 = 0 => rgba[i] = 255
    /\ EncodeIdle
    /\ \E runStores \in BOOLEAN :
          dBuffer = RefEncode(Pixels(rgba), width, height, channels, colorspace, runStores)
    /\ dS = NewState
    /\ dIdx = 0
    /\ pixelsRead = 0
    /\ decResult = "none"
    /\ chunksRead = 0
    /\ CallsIdle

SpecRef == InitRef /\ [][DecodeStep]_vars

\* Decode on hand-made buffers: a header for up to MaxStream + 1 pixels and
\* up to MaxStream bytes of StreamBytes, a header cut short, a wrong magic,
\* an RGBA chunk of a pixel of LiteralPixels followed by two INDEX chunks
InitDec ==
    /\ pc = "Decode"
    /\ rgba = << >> /\ width = 0 /\ height = 0 /\ channels = 4 /\ colorspace = 0
    /\ EncodeIdle
    /\ \/ \E w \in 0 .. MaxStream + 1, n \in 0 .. MaxStream :
             \E body \in [1 .. n -> StreamBytes] :
                dBuffer = Header(MAGIC_BYTES, w, 1, 4, 0) \o body
       \/ \E k \in 0 .. 13, m \in { MAGIC_BYTES } \union BadMagics :
             dBuffer = SubSeq(Header(m, 1, 1, 4, 0), 1, k)
       \/ \E m \in BadMagics, n \in 0 .. 1 :
             \E body \in [1 .. n -> StreamBytes] :
                dBuffer = Header(m, 1, 1, 4, 0) \o body
       \/ \E p \in LiteralPixels, i \in IndexSlots, j \in IndexSlots :
             dBuffer = Header(MAGIC_BYTES, 3, 1, 4, 0)
                          \o << 255, p.R, p.G, p.B, p.A, i, j >>
    /\ dS = NewState
    /\ dIdx = 0
    /\ pixelsRead = 0
    /\ decResult = "none"
    /\ chunksRead = 0
    /\ CallsIdle

SpecDec == InitDec /\ [][DecodeStep]_vars

\* bytes appended to a buffer Decode accepted: the end marker, a byte that
\* looks like a RUN chunk, the tag of an RGBA chunk whose payload is missing
Trailers == { EndMarker, << 193 >>, << 255 >> }

\* Decode is called a second time, on the accepted buffer followed by a
\* trailer; dFirst keeps what the first call returned
DecodeAgain ==
    /\ pc = "DecDone" /\ decResult = "ok"
    /\ dFirst = << >>
    /\ \E t \in Trailers : dBuffer' = dBuffer \o t
    /\ dFirst' = << [header |-> dS.header, Raw |-> dS.Raw] >>
    /\ pc' = "Decode"
    /\ dS' = NewState
    /\ dIdx' = 0
    /\ pixelsRead' = 0
    /\ decResult' = "none"
    /\ chunksRead' = 0
    /\ UNCHANGED << probe, inVars, encVars >>

\* Decode on hand-made buffers, then Decode on each accepted buffer with a
\* trailer
SpecTrail == InitDec /\ [][DecodeStep \/ DecodeAgain]_vars

\* channel values of the images of two pixels: both ends of the byte range
\* and a value far from them
DeltaBase == { 0, 100, 255 }

\* differences of the green channel between the two pixels, and of the red
\* and blue differences from the green one: the limits of the DIFF fields
\* (-2..1) and of the LUMA fields (-32..31 and -8..7) from both sides
GreenDeltas == { -33, -32, -3, -2, -1, 0, 1, 2, 31, 32 }
RedBlueDeltas == { -9, -8, -2, 0, 1, 7, 8 }

\* the two alpha values of those images: that of the initial previousPixel
\* and that of the zero pixel
DeltaAlphas == { 255, 0 }

\* Encode on images of two pixels: any pixel over DeltaBase and DeltaAlphas,
\* then the pixel at the given differences from it modulo 256
InitDelta ==
    /\ pc = "Encode"
    /\ channels \in { 3, 4 }
    /\ colorspace = 0
    /\ width = 2 /\ height = 1
    /\ \E r \in DeltaBase, g \in DeltaBase, b \in DeltaBase, a \in DeltaAlphas :
          \E vg \in GreenDeltas, vr \in RedBlueDeltas, vb \in RedBlueDeltas,
             a2 \in DeltaAlphas :
                rgba = Flatten(<< Pix(r, g, b, a),
                                  Pix(U8(r + vg + vr + 512), U8(g + vg + 512),
                                      U8(b + vg + vb + 512), a2) >>)
    /\ EncodeIdle
    /\ DecodeIdle

SpecDelta == InitDelta /\ [][EncodeStep]_vars

\* DecodeConfig on a reader that holds the first k bytes of a header, with
\* the magic or a wrong one, followed by the tag of an RGBA chunk
InitCfg ==
    /\ pc = "DecodeConfig"
    /\ rgba = << >> /\ width = 0 /\ height = 0 /\ channels = 4 /\ colorspace = 0
    /\ EncodeIdle
    /\ \E m \in { MAGIC_BYTES } \union BadMagics, w \in 0 .. MaxStream + 1,
          h \in WideDims, k \in 0 .. 15 :
             dBuffer = SubSeq(Header(m, w, h, 4, 0) \o << 255 >>, 1, k)
    /\ dS = NewState
    /\ dIdx = 0
    /\ pixelsRead = 0
    /\ decResult = "none"
    /\ chunksRead = 0
    /\ CallsIdle

SpecCfg == InitCfg /\ [][DecodeConfig]_vars

\* both: Encode then Decode on its output, and Decode on hand-made buffers
SpecAll == (Init \/ InitDec) /\ [][Next]_vars

\* the pixels of the images of InitLive: one for each kind of chunk Encode
\* emits after the initial previousPixel
LivePalette == Palette \ { Pix(10, 20, 30, 7) }

\* the pixels of its long runs: the initial previousPixel (RUN at once) and
\* the zero pixel (INDEX 0, then RUN)
LiveRunPixels == { Pix(0, 0, 0, 255), Pix(0, 0, 0, 0) }

\* the lengths of its long runs: around the 62 pixels one RUN chunk of
\* Encode holds, and up to MaxRun
LiveRunLengths == ((MaxRun \div 2) - 4 .. (MaxRun \div 2)) \union (MaxRun - 4 .. MaxRun)

\* Encode on rows of fewer than MaxPixels pixels of LivePalette, on runs of
\* LiveRunLengths pixels and on buffers of any size; Decode on a header for up
\* to 2 pixels followed by up to MaxStream - 2 bytes of StreamBytes, on a
\* header cut short and on a wrong magic
InitLive ==
    \/ /\ pc = "Encode"
       /\ channels \in { 3, 4 }
       /\ colorspace = 0
       /\ \/ \E n \in 0 .. MaxPixels - 1 :
                \E ps \in [1 .. n -> LivePalette] :
                   rgba = Flatten(ps) /\ width = n /\ height = 1
          \/ \E n \in LiveRunLengths, p \in LiveRunPixels :
                rgba = Flatten([i \in 1 .. n |-> p]) /\ width = n /\ height = 1
          \/ AnySizeImage
       /\ EncodeIdle
       /\ DecodeIdle
    \/ /\ pc = "Decode"
       /\ rgba = << >> /\ width = 0 /\ height = 0 /\ channels = 4 /\ colorspace = 0
       /\ EncodeIdle
       /\ \/ \E w \in 0 .. 2, n \in 0 .. MaxStream - 2 :
                \E body \in [1 .. n -> StreamBytes] :
                   dBuffer = Header(MAGIC_BYTES, w, 1, 4, 0) \o body
          \/ \E k \in 0 .. 13 : dBuffer = SubSeq(Header(MAGIC_BYTES, 1, 1, 4, 0), 1, k)
          \/ \E m \in BadMagics : dBuffer = Header(m, 1, 1, 4, 0)
       /\ dS = NewState
       /\ dIdx = 0
       /\ pixelsRead = 0
       /\ decResult = "none"
       /\ chunksRead = 0
       /\ CallsIdle

\* Encode, then Decode on its output, and Decode on hand-made buffers, with
\* the calls running on: Encode and Decode are sequential code with nothing
\* to wait for, so a call that can take its next step takes it
SpecLive ==
    /\ InitLive
    /\ [][Next]_vars
    /\ WF_vars(EncodeStep)
    /\ WF_vars(DecodeStep)

(***************************************************************************)
(* Properties.                                                             *)
(***************************************************************************)
\* len(rgba) = width * height * 4 over the integers, stated by division so
\* that no product is formed
SizeMatches ==
    IF width = 0 \/ height = 0
    THEN Len(rgba) = 0
    ELSE /\ Len(rgba) % 4 = 0
         /\ (Len(rgba) \div 4) % width = 0
         /\ (Len(rgba) \div 4) \div width = height

\* the bytes Encode returned after the 14 bytes of the header
ChunkBytes == SubSeq(buffer, 15, Len(buffer))

\* C1: round trip, 4 channels: whenever len(rgba) = width*height*4, Encode
\* returns no error, and Decode of its output succeeds with exactly
\* width*height pixels whose R,G,B,A bytes are those of rgba, in order.
RoundTrip4 ==
    (channels = 4 /\ SizeMatches) =>
        /\ pc = "EncDone" => ~encErr
        /\ pc = "DecDone" =>
              /\ decResult = "ok"
              /\ Len(dS.Raw) = width * height
              /\ Flatten(dS.Raw) = rgba

\* a 4-channel round trip of at least three pixels, not all the same, that
\* has ended
RoundTrip4Witness ==
    /\ pc = "DecDone" /\ channels = 4 /\ decResult = "ok"
    /\ Len(dS.Raw) >= 3
    /\ \E i, j \in 1 .. Len(dS.Raw) : dS.Raw[i] # dS.Raw[j]
    /\ Flatten(dS.Raw) = rgba

\* C2: round trip, 3 channels: for every rgba of length width*height*4,
\* whatever its alpha bytes, Decode of Encode's output succeeds with
\* width*height pixels whose R,G,B are those of rgba and whose alpha is 255.
RoundTrip3 ==
    (pc = "DecDone" /\ channels = 3 /\ SizeMatches) =>
        /\ decResult = "ok"
        /\ Len(dS.Raw) = width * height
        /\ \A i \in 1 .. Len(dS.Raw) :
              /\ dS.Raw[i].R = Pixels(rgba)[i].R
              /\ dS.Raw[i].G = Pixels(rgba)[i].G
              /\ dS.Raw[i].B = Pixels(rgba)[i].B
              /\ dS.Raw[i].A = 255

\* C3: the bytes Encode returns are those of the reference encoding of the
\* image: same length, same content (header, chunks by the priority RUN,
\* INDEX, DIFF, LUMA, RGB, RGBA, end marker).
EncodeIsReference ==
    (pc = "EncDone" /\ ~encErr /\ SizeMatches) =>
        \E runStores \in BOOLEAN :
            buffer = RefEncode(Pixels(rgba), width, height, channels, colorspace, runStores)

\* C4: Decode of the reference encoding of an image succeeds and yields
\* exactly the pixels of the image.
DecodesReference ==
    pc = "DecDone" =>
        /\ decResult = "ok"
        /\ Len(dS.Raw) = width * height
        /\ Flatten(dS.Raw) = rgba

\* the reference encoding of at least three pixels, not all the same, has
\* been decoded
DecodesReferenceWitness ==
    /\ pc = "DecDone" /\ decResult = "ok"
    /\ Len(dS.Raw) >= 3
    /\ \E i, j \in 1 .. Len(dS.Raw) : dS.Raw[i] # dS.Raw[j]
    /\ Flatten(dS.Raw) = rgba
    /\ SubSeq(dBuffer, Len(dBuffer) - 7, Len(dBuffer)) = EndMarker

\* C5: every successful Encode result ends with the 8 bytes of the end
\* marker, whatever the last chunk is, also for an image of no pixel.
EndMarkerWritten ==
    (pc = "EncDone" /\ ~encErr) =>
        /\ Len(buffer) >= 14 + 8
        /\ SubSeq(buffer, Len(buffer) - 7, Len(buffer)) = EndMarker

\* C6: at every step of Encode's loop, a pixel equal to previousPixel is
\* emitted as a RUN chunk (one byte in 0xC0..0xFD), also when the cache
\* holds it.
RunBeforeIndex ==
    [][(pc = "EncLoop" /\ EncLoopCond /\ Equals(currPixel, s.previousPixel)) =>
            /\ s'.previousType = qoi_op_run
            /\ Len(buffer') = Len(buffer) + 1
            /\ buffer'[Len(buffer')] \in 192 .. 253]_vars

\* the chunk bytes of ceil(n/62) RUN chunks covering n pixels: 62 each but
\* the last, which covers the rest
RunBytes(n) ==
    LET k == (n + 61) \div 62
    IN  [i \in 1 .. k |-> IF i < k THEN 192 + 61 ELSE 192 + (n - 62 * (k - 1)) - 1]

\* C7: a buffer of N >= 1 identical pixels encodes to exactly ceil(N/62) RUN
\* chunks, 62 pixels each but the last, which covers the residual.  Stated
\* for the pixel that can start with a RUN chunk at all, the initial
\* previousPixel, and leaving open whether an end marker follows.
RunCoalescing ==
    ( /\ pc = "EncDone" /\ ~encErr /\ SizeMatches
      /\ Len(rgba) >= 4
      /\ \A i \in 1 .. Len(rgba) \div 4 : Pixels(rgba)[i] = Pix(0, 0, 0, 255) ) =>
        \/ ChunkBytes = RunBytes(Len(rgba) \div 4)
        \/ ChunkBytes = RunBytes(Len(rgba) \div 4) \o EndMarker

\* the chunk at idx is an RGBA, RGB or LUMA chunk whose bytes end early
ChunkCut ==
    /\ dIdx < Len(dBuffer)
    /\ \/ tag = 255 /\ OutOfRange(4)
       \/ tag = 254 /\ OutOfRange(3)
       \/ tag < 254 /\ Shr(tag, 6) = 2 /\ OutOfRange(1)

\* C8: when the header is valid and the chunk bytes run out before
\* width*height pixels are produced, at a chunk boundary or inside an RGBA,
\* RGB or LUMA chunk, Decode returns an error.
TruncatedIsError ==
    ( /\ pc = "DecDone"
      /\ readHeader(dBuffer).err = "nil"
      /\ pixelsRead < dExpectedPixelsCount
      /\ dIdx >= Len(dBuffer) \/ ChunkCut ) =>
        decResult = "error"

\* C9: readHeader fails on every buffer shorter than 14 bytes (the length
\* check first) and on every longer one whose first 4 bytes are not "qoif",
\* returning no header; Decode then returns that error and no State.
HeaderErrors ==
    (Len(dBuffer) < 14 \/ SubSeq(dBuffer, 1, 4) # MAGIC_BYTES) =>
        /\ readHeader(dBuffer).err = IF Len(dBuffer) < 14 THEN "short" ELSE "magic"
        /\ DOMAIN readHeader(dBuffer) = { "err" }
        /\ pc \in { "Decode", "DecDone" }
        /\ pc = "DecDone" => decResult = "error" /\ dS = NewState

\* Decode has returned on a buffer of 13 bytes that starts with the magic
HeaderErrorsWitness ==
    /\ pc = "DecDone" /\ decResult = "error"
    /\ Len(dBuffer) = 13
    /\ SubSeq(dBuffer, 1, 4) = MAGIC_BYTES

\* C10: Encode returns an error and no bytes whenever len(rgba) differs from
\* width*height*4, for 3 channels as for 4, and no error whenever they are
\* equal.
SizeChecked ==
    pc = "EncDone" =>
        /\ encErr <=> ~SizeMatches
        /\ encErr => buffer = << >>

\* C11: header round trip: whenever Encode succeeds, readHeader on the first
\* 14 bytes of its output returns no error and Width = width, Height =
\* height, Channels = channels, Colorspace = colorspace.
HeaderRoundTrip ==
    (pc # "Encode" /\ ~encErr) =>
        LET h == readHeader(SubSeq(buffer, 1, 14))
        IN  /\ Len(buffer) >= 14
            /\ h.err = "nil"
            /\ h.Width = width
            /\ h.Height = height
            /\ h.Channels = channels
            /\ h.Colorspace = colorspace

\* Encode has returned the encoding of an image 1 pixel wide and 2 pixels
\* high, and the header reads back as width 1 and height 2
HeaderRoundTripWitness ==
    /\ pc = "EncDone" /\ ~encErr
    /\ width = 1 /\ height = 2 /\ channels = 3 /\ colorspace = 1
    /\ readHeader(SubSeq(buffer, 1, 14)).Width = 1
    /\ readHeader(SubSeq(buffer, 1, 14)).Height = 2

\* C12: index-collision rule: Encode never emits an INDEX chunk right after
\* an INDEX chunk of the same 6-bit index; where the pixel to encode is in
\* the cache at the slot the INDEX chunk just emitted names, the step emits
\* a RUN chunk (one byte in 0xC0..0xFD) covering at least that pixel.
NoRepeatedIndex ==
    [][(pc = "EncLoop" /\ s.previousType = qoi_op_index) =>
            /\ (s'.previousType = qoi_op_index /\ buffer' # buffer) =>
                    buffer'[Len(buffer')] # buffer[Len(buffer)]
            /\ (EncLoopCond /\ CacheHit /\ Hash(currPixel) = buffer[Len(buffer)]) =>
                    /\ s'.previousType = qoi_op_run
                    /\ Len(buffer') = Len(buffer) + 1
                    /\ buffer'[Len(buffer')] \in 192 .. 253
                    /\ pixelsWritten' > pixelsWritten
                    /\ idx' > idx]_vars

\* Encode has returned an INDEX chunk followed by a RUN chunk for two pixels
\* of the same cache slot
NoRepeatedIndexWitness ==
    /\ pc = "EncDone" /\ ~encErr
    /\ Len(buffer) = 16
    /\ buffer[15] < 64 /\ buffer[15] = Hash(s.previousPixel)
    /\ buffer[16] = 192
    /\ s.previousType = qoi_op_run

\* the 2x1 4-channel image [(0,0,0,255), (0,0,0,255)]
TwoBlackPixels ==
    /\ rgba = << 0, 0, 0, 255, 0, 0, 0, 255 >>
    /\ width = 2 /\ height = 1 /\ channels = 4

\* C13 as stated: encoding the 2x1 4-channel image [(0,0,0,255), (0,0,0,255)]
\* yields the header, exactly one RUN chunk whose byte is 0b11000000 (192)
\* and the end marker, and decoding that output reconstructs both pixels.
ConcreteRunAsStated ==
    TwoBlackPixels =>
        /\ pc = "EncDone" =>
              /\ ~encErr
              /\ buffer = Header(MAGIC_BYTES, 2, 1, 4, colorspace) \o << 192 >> \o EndMarker
        /\ pc = "DecDone" =>
              /\ decResult = "ok"
              /\ dS.Raw = << Pix(0, 0, 0, 255), Pix(0, 0, 0, 255) >>

\* C13, amended: encoding the 2x1 4-channel image [(0,0,0,255), (0,0,0,255)]
\* yields the header followed by exactly one chunk, a RUN chunk whose byte
\* is 0b11000001 (193: count field 1, run length 2), whether or not an end
\* marker follows it, and decoding that output reconstructs both pixels.
ConcreteRun ==
    TwoBlackPixels =>
        /\ pc = "EncDone" =>
              /\ ~encErr
              /\ SubSeq(buffer, 1, 14) = Header(MAGIC_BYTES, 2, 1, 4, colorspace)
              /\ ChunkBytes \in { << 193 >>, << 193 >> \o EndMarker }
        /\ pc = "DecDone" =>
              /\ decResult = "ok"
              /\ dS.Raw = << Pix(0, 0, 0, 255), Pix(0, 0, 0, 255) >>

\* the encoding of the two black pixels has been decoded
ConcreteRunWitness ==
    /\ TwoBlackPixels
    /\ pc = "DecDone"
    /\ dBuffer = buffer /\ dBuffer[15] = 193
    /\ Len(dS.Raw) = 2

\* C14: the decoder never overruns the pixel count: for every stream with a
\* valid header, a RUN chunk longer than the pixels still missing included,
\* Decode ends with exactly width*height pixels or returns an error; Raw
\* never has a pixel at a position >= width*height and Decode never aborts.
\* Streams that end inside an RGBA, RGB or LUMA chunk are left to C8.
NoOverrun ==
    (pc \in { "DecLoop", "DecDone" } /\ readHeader(dBuffer).err = "nil") =>
        /\ Len(dS.Raw) = dExpectedPixelsCount
        /\ pixelsRead <= dExpectedPixelsCount
        /\ (pc = "DecDone" /\ ~ChunkCut) =>
              /\ decResult \in { "ok", "error" }
              /\ decResult = "ok" => pixelsRead = dExpectedPixelsCount

\* C15: decoder cache store: after Decode has processed an RGBA, RGB, INDEX,
\* DIFF or LUMA chunk that produced the pixel p, historyBuffer[hash(p)] = p,
\* also when an INDEX chunk reads a slot never written.
CacheStored ==
    [][( /\ pc = "DecLoop" /\ DecLoopCond
         /\ tag >= 254 \/ Shr(tag, 6) # 3
         /\ pixelsRead' = pixelsRead + 1 ) =>
            LET p == dS'.Raw[pixelsRead']
            IN  dS'.historyBuffer[Hash(p)] = p]_vars

\* C16: encoder/decoder lockstep: when Decode runs on Encode's output for a
\* 4-channel input, after the k-th chunk, for every k, Decode's previousPixel
\* and all 64 slots of its historyBuffer equal Encode's after it emitted the
\* k-th chunk; before the first chunk both are those of a fresh State; and
\* Decode ends having processed as many chunks as Encode emitted.
Lockstep ==
    (channels = 4 /\ pc \in { "DecLoop", "DecDone" }) =>
        /\ dBuffer = buffer
        /\ chunksRead <= Len(sAfter)
        /\ LET e == IF chunksRead = 0 THEN Snapshot(NewState) ELSE sAfter[chunksRead]
           IN  /\ dS.previousPixel = e.previousPixel
               /\ \A i \in 0 .. 63 :
                     dS.historyBuffer[i] =
                        IF i \in DOMAIN e.slots THEN e.slots[i] ELSE ZeroPixel
        /\ pc = "DecDone" => chunksRead = Len(sAfter)

\* Decode has processed the three or more chunks Encode emitted for a
\* 4-channel image, one of them a RUN chunk that is not the first, and the
\* cache of Encode changed from each chunk to the next
LockstepWitness ==
    /\ channels = 4 /\ pc = "DecDone" /\ decResult = "ok"
    /\ chunksRead = Len(sAfter) /\ chunksRead >= 3
    /\ sAfter[chunksRead].previousType = qoi_op_run
    /\ sAfter[1].slots # Snapshot(NewState).slots
    /\ sAfter[2].slots # sAfter[1].slots
    /\ Snapshot(dS).slots = sAfter[chunksRead].slots
    /\ dS.previousPixel = sAfter[chunksRead].previousPixel

\* C17: initial-run seeding: if the first chunk processed is a RUN chunk,
\* then after it slot hash({0,0,0,255}) = 53 of the cache holds {0,0,0,255},
\* in Decode and in Encode alike; a RUN chunk that is not the first chunk
\* leaves Decode's cache unchanged.
RunSeeding ==
    [][ /\ Hash(Pix(0, 0, 0, 255)) = 53
        /\ ( /\ pc = "EncLoop" /\ sAfter = << >>
             /\ Len(sAfter') = 1 /\ s'.previousType = qoi_op_run ) =>
                s'.historyBuffer[53] = Pix(0, 0, 0, 255)
        /\ ( /\ pc = "DecLoop" /\ DecLoopCond
             /\ tag \in 192 .. 253
             /\ chunksRead' = chunksRead + 1 ) =>
                IF chunksRead = 0
                THEN dS'.historyBuffer[53] = Pix(0, 0, 0, 255)
                ELSE dS'.historyBuffer = dS.historyBuffer ]_vars

\* Encode emitted a RUN chunk first and a RUN chunk last, with chunks in
\* between, Decode has processed them all, and slot 53 holds {0,0,0,255} in
\* Encode's cache after the first chunk and in Decode's
RunSeedingWitness ==
    /\ pc \in { "DecLoop", "DecDone" }
    /\ dBuffer = buffer
    /\ Len(sAfter) >= 3 /\ chunksRead = Len(sAfter)
    /\ sAfter[1].previousType = qoi_op_run
    /\ sAfter[1].slots = (53 :> Pix(0, 0, 0, 255))
    /\ sAfter[Len(sAfter)].previousType = qoi_op_run
    /\ dBuffer[15] \in 192 .. 253
    /\ dS.historyBuffer[53] = Pix(0, 0, 0, 255)

\* C18: RUN length bound: every RUN chunk Encode emits, from the
\* previous-pixel branch or the index-collision branch, is one byte in
\* 0xC0..0xFD, its count field in 0..61, never 254 or 255; it covers count
\* field + 1 pixels, at most 62, so a longer run is split.
RunLengthBound ==
    [][( /\ pc = "EncLoop"
         /\ Len(sAfter') = Len(sAfter) + 1
         /\ s'.previousType = qoi_op_run ) =>
            /\ Len(buffer') = Len(buffer) + 1
            /\ SubSeq(buffer', 1, Len(buffer)) = buffer
            /\ LET b == buffer'[Len(buffer')]
               IN  /\ b \in 192 .. 253
                   /\ And(b, 63) \in 0 .. 61
                   /\ pixelsWritten' - pixelsWritten = And(b, 63) + 1
                   /\ pixelsWritten' - pixelsWritten <= 62 ]_vars

\* Encode has met more than 62 equal pixels after an INDEX chunk and has
\* emitted a RUN chunk of 62 pixels, byte 0xFD, with pixels left to encode
RunLengthBoundWitness ==
    /\ pc = "EncLoop" /\ EncLoopCond
    /\ s.previousType = qoi_op_run
    /\ Len(buffer) = 16
    /\ buffer[15] < 64 /\ buffer[16] = 253
    /\ pixelsWritten = 63
    /\ Equals(currPixel, s.previousPixel)

\* the number of pixels the chunks starting at byte i of bytes cover: 1 per
\* RGBA (5 bytes), RGB (4), LUMA (2), INDEX and DIFF chunk (1), count field
\* + 1 per RUN chunk
RECURSIVE PixelsCovered(_, _)
PixelsCovered(bytes, i) ==
    IF i > Len(bytes) THEN 0
    ELSE CASE bytes[i] = 255 -> 1 + PixelsCovered(bytes, i + 5)
           [] bytes[i] = 254 -> 1 + PixelsCovered(bytes, i + 4)
           [] bytes[i] \in 192 .. 253 -> (bytes[i] - 192) + 1 + PixelsCovered(bytes, i + 1)
           [] bytes[i] \in 128 .. 191 -> 1 + PixelsCovered(bytes, i + 2)
           [] OTHER -> 1 + PixelsCovered(bytes, i + 1)

\* n = width * height over the integers, stated by division so that no
\* product is formed
IsPixelCount(n) ==
    IF width = 0 \/ height = 0
    THEN n = 0
    ELSE n % width = 0 /\ n \div width = height

\* C19: exact coverage by the encoder: on every successful Encode the chunks
\* emitted so far cover the input pixels before idx, each once and in
\* order; no scan goes past the end of rgba; and at the end the pixel counts
\* of the chunks (1 per non-RUN chunk, count field + 1 per RUN chunk) sum to
\* exactly width*height, all of rgba.
ExactCoverage ==
    (pc \in { "EncLoop", "EncDone" } /\ ~encErr) =>
        /\ idx = 4 * pixelsWritten
        /\ idx <= Len(rgba)
        /\ PixelsCovered(ChunkBytes, 1) = pixelsWritten
        /\ pc = "EncDone" =>
              /\ idx = Len(rgba)
              /\ IsPixelCount(pixelsWritten)

\* C20: RUN chunks are only emitted for repeats: whenever Encode emits a RUN
\* chunk, in the previous-pixel branch or in the index-collision branch,
\* every input pixel the chunk covers (count field + 1 pixels from idx on)
\* equals previousPixel as it was just before the chunk.
RunOnlyForRepeats ==
    [][( /\ pc = "EncLoop"
         /\ Len(sAfter') = Len(sAfter) + 1
         /\ s'.previousType = qoi_op_run ) =>
            /\ idx' = idx + 4 * (And(buffer'[Len(buffer')], 63) + 1)
            /\ idx' <= Len(rgba)
            /\ \A k \in 0 .. And(buffer'[Len(buffer')], 63) :
                  PixelAt(idx + 4 * k) = s.previousPixel ]_vars

\* Encode has emitted, after an INDEX chunk, a RUN chunk that covers two or
\* more pixels other than {0,0,0,255}, all equal to previousPixel
RunOnlyForRepeatsWitness ==
    /\ pc = "EncLoop"
    /\ Len(sAfter) >= 3
    /\ sAfter[Len(sAfter) - 1].previousType = qoi_op_index
    /\ s.previousType = qoi_op_run
    /\ buffer[Len(buffer)] \in 193 .. 253
    /\ s.previousPixel # Pix(0, 0, 0, 255)
    /\ sAfter[Len(sAfter) - 1].previousPixel = s.previousPixel
    /\ PixelAt(idx - 4) = s.previousPixel /\ PixelAt(idx - 8) = s.previousPixel

\* C21: delta chunks invert under 8-bit wraparound: whenever Encode emits a
\* DIFF or a LUMA chunk, each field of the chunk fits its bit width (DIFF
\* fields in 0..3, LUMA green in 0..63, LUMA red and blue in 0..15) and the
\* decoder's reconstruction from the chunk and the same previous pixel is
\* the current pixel, whose alpha is the previous alpha.
DeltaInverts ==
    [][( /\ pc = "EncLoop"
         /\ Len(sAfter') = Len(sAfter) + 1
         /\ s'.previousType \in { qoi_op_diff, qoi_op_luma } ) =>
            IF s'.previousType = qoi_op_diff
            THEN /\ Len(buffer') = Len(buffer) + 1
                 /\ LET t == buffer'[Len(buffer')]
                    IN  /\ rDiff \in 0 .. 3 /\ gDiff \in 0 .. 3 /\ bDiff \in 0 .. 3
                        /\ t = 64 + 16 * rDiff + 4 * gDiff + bDiff
                        /\ DiffPixel(s.previousPixel, t) = currPixel
                        /\ DiffPixel(s.previousPixel, t).A = s.previousPixel.A
            ELSE /\ Len(buffer') = Len(buffer) + 2
                 /\ LET t == buffer'[Len(buffer') - 1]
                        rb == buffer'[Len(buffer')]
                    IN  /\ dg \in 0 .. 63 /\ dr_dg \in 0 .. 15 /\ db_dg \in 0 .. 15
                        /\ t = 128 + dg
                        /\ rb = 16 * dr_dg + db_dg
                        /\ LumaPixel(s.previousPixel, t, rb) = currPixel
                        /\ LumaPixel(s.previousPixel, t, rb).A = s.previousPixel.A ]_vars

\* C22: literal chunk selection: a pixel not encoded as RUN, INDEX, DIFF or
\* LUMA is emitted as the 4-byte RGB chunk [254,R,G,B] if channels = 3 or
\* its alpha is the previous alpha, and as the 5-byte RGBA chunk
\* [255,R,G,B,A] only if the alpha changed in 4-channel mode; DIFF and LUMA
\* are never emitted in 4-channel mode when the alpha changed, and RGBA is
\* never emitted when channels = 3.
LiteralSelection ==
    [][(pc = "EncLoop" /\ Len(sAfter') = Len(sAfter) + 1) =>
            LET changed == currPixel.A # s.previousPixel.A
                kind == s'.previousType
            IN  /\ kind \in { qoi_op_run, qoi_op_index, qoi_op_diff, qoi_op_luma,
                               qoi_op_rgb, qoi_op_rgba }
                /\ kind = qoi_op_rgb =>
                      /\ channels = 3 \/ ~changed
                      /\ buffer' = buffer \o << 254, currPixel.R, currPixel.G, currPixel.B >>
                /\ kind = qoi_op_rgba =>
                      /\ channels = 4 /\ changed
                      /\ buffer' = buffer \o << 255, currPixel.R, currPixel.G,
                                                 currPixel.B, currPixel.A >>
                /\ kind \in { qoi_op_diff, qoi_op_luma } => ~(channels = 4 /\ changed)
                /\ kind = qoi_op_rgba => channels # 3 ]_vars

\* Encode, in 3-channel mode, has emitted an RGB chunk as its second chunk
\* for a pixel whose alpha is not that of the pixel before it
LiteralSelectionWitness ==
    /\ pc = "EncLoop" /\ channels = 3
    /\ Len(sAfter) = 2
    /\ s.previousType = qoi_op_rgb
    /\ buffer[Len(buffer) - 3] = 254
    /\ sAfter[1].previousPixel.A # s.previousPixel.A

\* C23: trailing bytes do not matter: when Decode succeeded on a buffer, Decode
\* on that buffer followed by any trailer succeeds too and returns the same
\* header and the same pixels
TrailingIgnored ==
    (pc = "DecDone" /\ dFirst # << >>) =>
        /\ decResult = "ok"
        /\ dS.header = dFirst[1].header
        /\ dS.Raw = dFirst[1].Raw

\* the second call returned two pixels or more and stopped right before a
\* trailer that looks like a RUN chunk
TrailingIgnoredWitness ==
    /\ pc = "DecDone" /\ dFirst # << >>
    /\ decResult = "ok"
    /\ Len(dS.Raw) >= 2
    /\ dIdx = Len(dBuffer) - 1
    /\ dBuffer[Len(dBuffer)] = 193

\* pixelsRead = Width * Height of the header over the integers, stated by
\* division so that no product is formed
HeaderPixelCount ==
    IF dS.header.Width = 0 \/ dS.header.Height = 0
    THEN pixelsRead = 0
    ELSE /\ pixelsRead % dS.header.Width = 0
         /\ pixelsRead \div dS.header.Width = dS.header.Height

\* C24: pixel count without overflow: Encode succeeds only when len(rgba) is
\* 4 times the product width*height over the integers, and Decode succeeds
\* only when the number of pixels it produced is the product of the header's
\* Width and Height over the integers, also when that product is 2^32 or
\* more.
NoProductOverflow ==
    /\ (pc = "EncDone" /\ ~encErr) => SizeMatches
    /\ (pc = "DecDone" /\ decResult = "ok") => HeaderPixelCount

\* C25: header probe failure modes: DecodeConfig returns a non-nil error
\* whenever the reader delivered fewer than 14 bytes or the first 4 bytes are
\* not the magic, and whenever it returns a nil error the Config's Width and
\* Height are those of the header.
HeaderProbe ==
    pc = "ConfigDone" =>
        /\ (probe[1].n < 14 \/ SubSeq(dBuffer, 1, 4) # MAGIC_BYTES) =>
              probe[1].err # "nil"
        /\ probe[1].err = "nil" =>
              /\ Len(dBuffer) >= 14
              /\ probe[1].Width = Uint32(SubSeq(dBuffer, 5, 8))
              /\ probe[1].Height = Uint32(SubSeq(dBuffer, 9, 12))

\* C26: termination: every call of Encode and every call of Decode ends; every
\* iteration of Decode's chunk loop that returns to the loop test has consumed
\* at least 1 byte and produced at least 1 pixel, and every iteration of
\* Encode's pixel loop has consumed at least 1 input pixel (4 bytes of rgba)
\* and appended at least 1 byte.
Termination ==
    /\ [][( /\ (pc = "DecLoop" /\ pc' = "DecLoop") =>
                  (dIdx' >= dIdx + 1 /\ pixelsRead' >= pixelsRead + 1)
            /\ (pc = "EncLoop" /\ pc' = "EncLoop") =>
                  (idx' >= idx + 4 /\ pixelsWritten' >= pixelsWritten + 1
                     /\ Len(buffer') >= Len(buffer) + 1) )]_vars
    /\ (pc = "Encode") ~> (pc = "EncDone")
    /\ (pc = "Decode") ~> (pc = "DecDone")

\* Encode's loop has ended after three chunks or more, and so has Decode's
\* loop on Encode's output
TerminationWitness ==
    /\ pc = "DecDone" /\ decResult = "ok"
    /\ Len(sAfter) >= 3
    /\ chunksRead >= 3

====
